---------------------------- MODULE Spec2Model ----------------------------
(***************************************************************************)
(* Model of the URL extraction pipeline of backend/server.py (predict) and *)
(* of HtmlFeatureExtractor.transform of backend/features.py.               *)
(*                                                                         *)
(* Text is a sequence of atoms.  An atom is a literal piece of text; the   *)
(* text a sequence stands for is the concatenation of its atoms.  The      *)
(* atoms are prefix-free (no atom is a prefix of another), so comparing    *)
(* two sequences atom by atom in the order of AtomOrder is Python's        *)
(* comparison of the strings, and no marker the code searches for can      *)
(* arise across the border of two atoms.                                   *)
(***************************************************************************)
EXTENDS Integers, Sequences, FiniteSets, TLC

(***************************************************************************)
(* Bounds                                                                  *)
(***************************************************************************)
\* number of elements (tags, text nodes, markers) of an email body
MaxBody == 2
\* number of tokens of a text handed to HtmlFeatureExtractor.transform
MaxText == 2

(***************************************************************************)
(* Atoms, in ascending order of the text they stand for (ASCII).           *)
(***************************************************************************)
AtomOrder ==
  << " ", "#", "%23", "%26", "%29", "%2B", "%2F", "%3A", "%3D", "%3F", "%5B",
     "&", ")", "+", ".PNG", ".png", "/", "1", "2", "3", ":", "=", "?", "[",
     "a", "b", "example.com", "https",
     "mailto", "redirect", "safelinks.protection.outlook.com",
     "tracking.inflection.io", "url", "utm_source", "w3%2Eorg", "w3.org",
     "x" >>

Atoms == { AtomOrder[i] : i \in 1..Len(AtomOrder) }

Rank(a) == CHOOSE i \in 1..Len(AtomOrder) : AtomOrder[i] = a

\* Python's str < str
StrLess(s, t) ==
  \E k \in 0..Len(s) :
     /\ k <= Len(t)
     /\ \A j \in 1..k : s[j] = t[j]
     /\ \/ k = Len(s) /\ k < Len(t)
        \/ k < Len(s) /\ k < Len(t) /\ Rank(s[k+1]) < Rank(t[k+1])

(***************************************************************************)
(* str methods                                                             *)
(***************************************************************************)
\* str.find of a one-atom needle: first index, 0 when absent
Find(s, a) ==
  IF \E i \in 1..Len(s) : s[i] = a
    THEN CHOOSE i \in 1..Len(s) : s[i] = a /\ \A j \in 1..(i-1) : s[j] # a
    ELSE 0

\* needle in s
In(needle, s) ==
  \E i \in 0..(Len(s) - Len(needle)) :
     \A j \in 1..Len(needle) : s[i+j] = needle[j]

EndsWith(s, suffix) ==
  /\ Len(suffix) <= Len(s)
  /\ \A j \in 1..Len(suffix) : s[Len(s) - Len(suffix) + j] = suffix[j]

StartsWith(s, prefix) ==
  /\ Len(prefix) <= Len(s)
  /\ \A j \in 1..Len(prefix) : s[j] = prefix[j]

From(s, i) == SubSeq(s, i, Len(s))

RECURSIVE LStrip(_)
LStrip(s) == IF s # << >> /\ Head(s) = " " THEN LStrip(Tail(s)) ELSE s

RECURSIVE RStrip(_)
RStrip(s) ==
  IF s # << >> /\ s[Len(s)] = " " THEN RStrip(SubSeq(s, 1, Len(s) - 1)) ELSE s

\* str.strip()
Strip(s) == RStrip(LStrip(s))

LowerAtom(a) == IF a = ".PNG" THEN ".png" ELSE a

\* str.lower()
Lower(s) == [i \in 1..Len(s) |-> LowerAtom(s[i])]

\* str.split(sep) for a one-atom separator
RECURSIVE Split(_, _)
Split(s, sep) ==
  LET i == Find(s, sep)
  IN  IF i = 0 THEN << s >>
      ELSE << SubSeq(s, 1, i - 1) >> \o Split(From(s, i + 1), sep)

\* sep.join(parts)
RECURSIVE Join(_, _)
Join(parts, sep) ==
  IF parts = << >> THEN << >>
  ELSE IF Len(parts) = 1 THEN parts[1]
  ELSE parts[1] \o << sep >> \o Join(Tail(parts), sep)

RECURSIVE Flatten(_)
Flatten(ss) == IF ss = << >> THEN << >> ELSE Head(ss) \o Flatten(Tail(ss))

(***************************************************************************)
(* urllib.parse, as predict uses it                                        *)
(***************************************************************************)
\* atoms made of scheme characters only (letters, digits, "+", "-", ".")
SchemeCharAtoms ==
  { "+", ".PNG", ".png", "1", "2", "3", "a", "b", "example.com", "https",
    "mailto", "redirect", "safelinks.protection.outlook.com",
    "tracking.inflection.io", "url", "w3.org", "x" }

\* atoms whose first character is an ASCII letter
AlphaAtoms ==
  { "a", "b", "example.com", "https", "mailto", "redirect",
    "safelinks.protection.outlook.com", "tracking.inflection.io", "url",
    "utm_source", "w3%2Eorg", "w3.org", "x" }

uses_netloc == { << >>, << "https" >> }

\* the scheme of url (lower-cased) and the rest after "scheme:"
SplitScheme(url) ==
  LET i == Find(url, ":")
  IN  IF /\ i > 1
         /\ url[1] \in AlphaAtoms
         /\ \A j \in 1..(i-1) : url[j] \in SchemeCharAtoms
        THEN [scheme |-> Lower(SubSeq(url, 1, i - 1)), rest |-> From(url, i + 1)]
        ELSE [scheme |-> << >>, rest |-> url]

\* _splitnetloc(url, 2): the netloc ends at the first of "/", "?", "#"
NetlocEnd(url) ==
  IF \E i \in 3..Len(url) : url[i] \in {"/", "?", "#"}
    THEN CHOOSE i \in 3..Len(url) :
           /\ url[i] \in {"/", "?", "#"}
           /\ \A j \in 3..(i-1) : url[j] \notin {"/", "?", "#"}
    ELSE Len(url) + 1

SplitNetloc(url) ==
  IF StartsWith(url, << "/", "/" >>)
    THEN [netloc |-> SubSeq(url, 3, NetlocEnd(url) - 1),
          rest   |-> From(url, NetlocEnd(url))]
    ELSE [netloc |-> << >>, rest |-> url]

\* the ValueError("Invalid IPv6 URL") of urlsplit
BadNetloc(netloc) ==
  \/ In(<< "[" >>, netloc) /\ ~In(<< "]" >>, netloc)
  \/ In(<< "]" >>, netloc) /\ ~In(<< "[" >>, netloc)

\* urlparse(url): ok = FALSE stands for the ValueError it raises.  No atom
\* holds ";", so the params component is always empty and is left out.
urlparse(url0) ==
  LET url  == LStrip(url0)
      s    == SplitScheme(url)
      n    == SplitNetloc(s.rest)
      h    == Find(n.rest, "#")
      noF  == IF h > 0 THEN SubSeq(n.rest, 1, h - 1) ELSE n.rest
      frag == IF h > 0 THEN From(n.rest, h + 1) ELSE << >>
      q    == Find(noF, "?")
      path == IF q > 0 THEN SubSeq(noF, 1, q - 1) ELSE noF
      qry  == IF q > 0 THEN From(noF, q + 1) ELSE << >>
  IN  [ok |-> ~BadNetloc(n.netloc), scheme |-> s.scheme, netloc |-> n.netloc,
       path |-> path, query |-> qry, fragment |-> frag]

\* urlunparse(parsed)
urlunparse(p) ==
  LET u1 == IF \/ p.netloc # << >>
               \/ /\ p.scheme # << >>
                  /\ p.scheme \in uses_netloc
                  /\ ~StartsWith(p.path, << "/", "/" >>)
              THEN << "/", "/" >> \o p.netloc \o
                   (IF p.path # << >> /\ Head(p.path) # "/"
                      THEN << "/" >> \o p.path ELSE p.path)
              ELSE p.path
      u2 == IF p.scheme # << >> THEN p.scheme \o << ":" >> \o u1 ELSE u1
      u3 == IF p.query # << >> THEN u2 \o << "?" >> \o p.query ELSE u2
  IN  IF p.fragment # << >> THEN u3 \o << "#" >> \o p.fragment ELSE u3

\* unquote(s.replace('+', ' ')) on one atom
UnquoteAtom(a) ==
  CASE a = "+"        -> " "
    [] a = "%23"      -> "#"
    [] a = "%26"      -> "&"
    [] a = "%29"      -> ")"
    [] a = "%2B"      -> "+"
    [] a = "%2F"      -> "/"
    [] a = "%3A"      -> ":"
    [] a = "%3D"      -> "="
    [] a = "%3F"      -> "?"
    [] a = "%5B"      -> "["
    [] a = "w3%2Eorg" -> "w3.org"
    [] OTHER          -> a

Unquote(s) == [i \in 1..Len(s) |-> UnquoteAtom(s[i])]

\* quote_plus on one atom of a decoded string; the word atoms consist of
\* characters quote_plus leaves alone
QuoteAtom(a) ==
  CASE a = " " -> "+"
    [] a = "#" -> "%23"
    [] a = "&" -> "%26"
    [] a = ")" -> "%29"
    [] a = "+" -> "%2B"
    [] a = "/" -> "%2F"
    [] a = ":" -> "%3A"
    [] a = "=" -> "%3D"
    [] a = "?" -> "%3F"
    [] a = "[" -> "%5B"
    [] OTHER   -> a

quote_plus(s) == [i \in 1..Len(s) |-> QuoteAtom(s[i])]

\* parse_qsl(qs): the decoded (name, value) pairs, blank values dropped
RECURSIVE QslOf(_)
QslOf(parts) ==
  IF parts = << >> THEN << >>
  ELSE LET nv == Head(parts)
           i  == Find(nv, "=")
       IN  (IF i > 0 /\ i < Len(nv)
              THEN << [k |-> Unquote(SubSeq(nv, 1, i - 1)),
                       v |-> Unquote(From(nv, i + 1))] >>
              ELSE << >>)
           \o QslOf(Tail(parts))

parse_qsl(qs) == QslOf(Split(qs, "&"))

\* parsed_result[name].append(value) / parsed_result[name] = [value]
DictAdd(d, k, v) ==
  IF \E i \in 1..Len(d) : d[i].k = k
    THEN [i \in 1..Len(d) |->
            IF d[i].k = k THEN [k |-> k, vs |-> Append(d[i].vs, v)] ELSE d[i]]
    ELSE Append(d, [k |-> k, vs |-> << v >>])

RECURSIVE DictOf(_, _)
DictOf(d, pairs) ==
  IF pairs = << >> THEN d
  ELSE DictOf(DictAdd(d, Head(pairs).k, Head(pairs).v), Tail(pairs))

\* parse_qs(qs): a dict in insertion order, name -> list of values
parse_qs(qs) == DictOf(<< >>, parse_qsl(qs))

HasKey(d, k) == \E i \in 1..Len(d) : d[i].k = k

Get(d, k) == d[CHOOSE i \in 1..Len(d) : d[i].k = k].vs

\* the "k=v" strings of one dict entry with doseq=True
RECURSIVE EncodeEntry(_, _)
EncodeEntry(k, vs) ==
  IF vs = << >> THEN << >>
  ELSE << quote_plus(k) \o << "=" >> \o quote_plus(Head(vs)) >>
       \o EncodeEntry(k, Tail(vs))

RECURSIVE EncodeItems(_)
EncodeItems(d) ==
  IF d = << >> THEN << >>
  ELSE EncodeEntry(Head(d).k, Head(d).vs) \o EncodeItems(Tail(d))

\* urlencode(d, doseq=True)
urlencode(d) == Join(EncodeItems(d), "&")

(***************************************************************************)
(* The helpers and tables of predict                                       *)
(***************************************************************************)
max_depth == 5

SAFELINKS == << "safelinks.protection.outlook.com" >>

INFLECTION == << "tracking.inflection.io" >>

tracking_params ==
  { << "inf_ver" >>, << "inf_ctx" >>, << "utm_source" >>, << "utm_medium" >>,
    << "utm_campaign" >>, << "utm_term" >>, << "utm_content" >> }

ignored_domains ==
  { << "w3.org" >>, << "xml.org" >>, << "schemas.microsoft.com" >>,
    << "purl.org" >>, << "xmlns.com" >>, << "fonts.googleapis.com" >>,
    << "fonts.gstatic.com" >> }

ignored_exts ==
  { << ".png" >>, << ".jpg" >>, << ".jpeg" >>, << ".gif" >>, << ".svg" >>,
    << ".css" >>, << ".js" >>, << ".woff" >>, << ".woff2" >>, << ".ico" >> }

\* one wrapper test of the loop body of unwrap_url: hit = the "continue"
\* branch, raised = urlparse raised inside the try
TryRule(url, marker, param) ==
  IF ~In(marker, url)
    THEN [hit |-> FALSE, raised |-> FALSE, url |-> url]
  ELSE IF ~urlparse(url).ok
    THEN [hit |-> FALSE, raised |-> TRUE, url |-> url]
  ELSE LET qs == parse_qs(urlparse(url).query)
       IN  IF HasKey(qs, param)
             THEN [hit |-> TRUE, raised |-> FALSE, url |-> Get(qs, param)[1]]
             ELSE [hit |-> FALSE, raised |-> FALSE, url |-> url]

\* faulty variant of UnwrapIter: a rule whose marker matches ends the iteration, whether or not
\* its parameter is present
UnwrapIter_FirstMarkerOnly(url) ==
  IF In(SAFELINKS, url) THEN TryRule(url, SAFELINKS, << "url" >>)
  ELSE TryRule(url, INFLECTION, << "redirect" >>)

\* one iteration of the for loop of unwrap_url
UnwrapIter(url) ==
  LET r1 == TryRule(url, SAFELINKS, << "url" >>)
  IN  IF r1.hit \/ r1.raised THEN r1
      ELSE TryRule(url, INFLECTION, << "redirect" >>)

\* faulty variant of InRange: one iteration too many
InRange_OffByOne(depth) == depth <= max_depth

\* for _ in range(max_depth)
InRange(depth) == depth < max_depth

clean_url_display(url) ==
  LET parsed == urlparse(url)
      qs     == parse_qs(parsed.query)
      new_qs == SelectSeq(qs, LAMBDA e : e.k \notin tracking_params)
  IN  IF ~parsed.ok THEN url
      ELSE urlunparse([parsed EXCEPT !.query = urlencode(new_qs)])

\* url.strip(), then one trailing ")" removed
Cleanup(url) ==
  LET u == Strip(url)
  IN  IF EndsWith(u, << ")" >>) THEN SubSeq(u, 1, Len(u) - 1) ELSE u

\* faulty variant of DomainIgnored: the test made on the canonicalized url
DomainIgnored_AfterClean(url) ==
  \E d \in ignored_domains : In(d, clean_url_display(url))

\* the domain loop of predict
DomainIgnored(url) == \E d \in ignored_domains : In(d, url)

\* the extension loop of predict, on a url urlparse accepts
ExtIgnored(url) ==
  \E ext \in ignored_exts : EndsWith(Lower(urlparse(url).path), ext)

\* sorted(...)
RECURSIVE sorted(_)
sorted(S) ==
  IF S = {} THEN << >>
  ELSE LET m == CHOOSE x \in S : \A y \in S \ {x} : StrLess(x, y)
       IN  << m >> \o sorted(S \ {m})

Range(q) == { q[i] : i \in 1..Len(q) }

\* faulty variant of Dedup: sorted(cleaned_urls), the set() forgotten
RECURSIVE Dedup_NoSet(_)
Dedup_NoSet(cleaned) ==
  IF cleaned = << >> THEN << >>
  ELSE LET i == CHOOSE k \in 1..Len(cleaned) :
                  \A j \in 1..Len(cleaned) : ~StrLess(cleaned[j], cleaned[k])
       IN  << cleaned[i] >>
           \o Dedup_NoSet(SubSeq(cleaned, 1, i - 1) \o From(cleaned, i + 1))

\* sorted(list(set(cleaned_urls)))
Dedup(cleaned) == sorted(Range(cleaned))

(***************************************************************************)
(* Email bodies.  A body is a sequence of elements: the markers the        *)
(* preprocessor looks for, leading garbage, anchors, text nodes and noise  *)
(* tags.  u is the href of an anchor and the text of a text node or of a   *)
(* script.                                                                 *)
(***************************************************************************)
HTTPS == << "https", ":", "/", "/" >>

Site == HTTPS \o << "example.com", "/", "x" >>

EncSite == << "https", "%3A", "%2F", "%2F", "example.com", "%2F", "x" >>

SafeHost == HTTPS \o SAFELINKS \o << "/" >>

RECURSIVE Chain(_)
Chain(n) ==
  IF n = 0 THEN << "x" >>
  ELSE SAFELINKS \o << "?", "url", "=" >> \o Chain(n - 1)

Hrefs ==
  { Site,
    Site \o << "?", "utm_source", "=", "1" >>,
    Site \o << "?", "utm_source", "=", "w3.org" >>,
    Site \o << "?", "a", "=", "w3%2Eorg" >>,
    Site \o << "?", "a", "=", "1", "&", "b", "=", "2", "&", "a", "=", "3" >>,
    Site \o << "?", "a", "=", "&", "b", "=", "2" >>,
    Site \o << ".png" >>,
    Site \o << ".PNG", "?", "a", "=", "1" >>,
    HTTPS \o << "w3.org", "/", "x" >>,
    << "#" >>,
    << "/", "x" >>,
    << "mailto", ":", "x" >>,
    HTTPS \o << "[", "x" >>,
    << " " >> \o Site \o << " " >>,
    SafeHost \o << "?", "url", "=" >> \o EncSite \o << "&", "a", "=", "1" >>,
    SafeHost \o << "x" >>,
    SafeHost \o INFLECTION \o << "?", "redirect", "=" >> \o EncSite,
    HTTPS \o INFLECTION \o << "/", "?", "redirect", "=" >> \o SafeHost
       \o << "?", "url", "=" >> \o Site,
    HTTPS \o << "[" >> \o SAFELINKS \o << "?", "url", "=", "x" >>,
    Chain(7) }

Texts ==
  { Site,
    Site \o << "?", "utm_source", "=", "2" >>,
    Site \o << ")" >>,
    Site \o << ".png" >>,
    << "x" >> }

Elements ==
  { [t |-> m, u |-> << >>] : m \in {"<html", "<HTML", "<!doctype html"} }
  \cup { [t |-> "a", u |-> h] : h \in Hrefs }
  \cup { [t |-> "text", u |-> x] : x \in Texts }
  \cup { [t |-> "script", u |-> Site] }

Bodies == UNION { [1..n -> Elements] : n \in 0..MaxBody }

\* str.lower() of the body: the markers are matched case-insensitively
LowerKind(e) == IF e.t = "<HTML" THEN "<html" ELSE e.t

\* lower_body.find(marker): 0 when absent
FindMarker(b, marker) ==
  IF \E i \in 1..Len(b) : LowerKind(b[i]) = marker
    THEN CHOOSE i \in 1..Len(b) :
           /\ LowerKind(b[i]) = marker
           /\ \A j \in 1..(i-1) : LowerKind(b[j]) # marker
    ELSE 0

\* faulty variant of CutBody: the cut made at the earlier of the two markers
CutBody_Earliest(b) ==
  LET h == FindMarker(b, "<html")
      d == FindMarker(b, "<!doctype html")
  IN  IF h > 0 /\ (d = 0 \/ h < d) THEN From(b, h)
      ELSE IF d > 0 THEN From(b, d)
      ELSE b

\* the preprocessing of predict
CutBody(b) ==
  IF FindMarker(b, "<html") > 0 THEN From(b, FindMarker(b, "<html"))
  ELSE IF FindMarker(b, "<!doctype html") > 0
    THEN From(b, FindMarker(b, "<!doctype html"))
  ELSE b

\* the tags decomposed as noise
NoiseKinds == {"script"}

Decompose(b) == SelectSeq(b, LAMBDA e : e.t \notin NoiseKinds)

\* a['href'] of every anchor, in document order
AnchorHrefs(b) ==
  LET as == SelectSeq(b, LAMBDA e : e.t = "a")
  IN  [i \in 1..Len(as) |-> as[i].u]

\* atoms of dotted host names, which url_pattern accepts as the host
HostAtoms ==
  { "example.com", "w3.org", "safelinks.protection.outlook.com",
    "tracking.inflection.io" }

\* atoms made of characters of the tail class of url_pattern
TailAtoms == Atoms \ {" ", "["}

RECURSIVE TailRun(_)
TailRun(s) ==
  IF s # << >> /\ Head(s) \in TailAtoms
    THEN << Head(s) >> \o TailRun(Tail(s)) ELSE << >>

\* re.findall(url_pattern, text) on the text of one text node
FindUrls(text) ==
  IF StartsWith(text, HTTPS) /\ Len(text) >= 5 /\ text[5] \in HostAtoms
    THEN << SubSeq(text, 1, 5) \o TailRun(From(text, 6)) >>
    ELSE << >>

\* re.findall over soup.get_text(" ", strip=True)
TextUrls(b) ==
  LET ts == SelectSeq(b, LAMBDA e : e.t = "text")
  IN  Flatten([i \in 1..Len(ts) |-> FindUrls(Strip(ts[i].u))])

\* urls_found after both sources
ExtractCandidates(b) == AnchorHrefs(Decompose(b)) \o TextUrls(Decompose(b))


(***************************************************************************)
(* HtmlFeatureExtractor.transform (features.py).  A post is a sequence of  *)
(* tokens; a dict is the sequence of its (key, value) items in insertion   *)
(* order.                                                                  *)
(***************************************************************************)
MaxPosts == 2

FTokens ==
  { "<script>", "<script src=http>", "<iframe>", "<form>", "display:none",
    "visibility:hidden", "http" }

FTexts == UNION { [1..n -> FTokens] : n \in 0..MaxText }

Count(text, S) == Cardinality({ i \in 1..Len(text) : text[i] \in S })

\* features[k] = v
DictSet(d, k, v) ==
  IF \E i \in 1..Len(d) : d[i].k = k
    THEN [i \in 1..Len(d) |-> IF d[i].k = k THEN [k |-> k, v |-> v] ELSE d[i]]
    ELSE Append(d, [k |-> k, v |-> v])

\* the statements of the try block, in order: the name of the feature a
\* statement assigns, or the call it makes
TryStmts ==
  << "BeautifulSoup", "num_script", "num_iframe", "num_forms", "num_hidden",
     "decompose", "num_links" >>

\* the value the try block computes for a feature
TryValue(text, k) ==
  CASE k = "num_script" -> Count(text, {"<script>", "<script src=http>"})
    [] k = "num_iframe" -> Count(text, {"<iframe>"})
    [] k = "num_forms"  -> Count(text, {"<form>"})
    [] k = "num_hidden" -> Count(text, {"display:none"})
                           + Count(text, {"visibility:hidden"})
    [] k = "num_links"  -> Count(text, {"http"})

\* one statement of the try block, completing normally
TryStmt(d, text, n) ==
  IF TryStmts[n] \in {"BeautifulSoup", "decompose"} THEN d
  ELSE DictSet(d, TryStmts[n], TryValue(text, TryStmts[n]))

\* the except block
Fallback(d, text) ==
  LET d1 == DictSet(d, "num_script", Count(text, {"<script>"}))
      d2 == DictSet(d1, "num_iframe", Count(text, {"<iframe>"}))
      d3 == DictSet(d2, "num_hidden", Count(text, {"display:none"})
                                      + Count(text, {"visibility:hidden"}))
      d4 == DictSet(d3, "num_forms", Count(text, {"<form>"}))
  IN  DictSet(d4, "num_links", Count(text, {"http", "<script src=http>"}))

\* list(features.values())
Values(d) == [i \in 1..Len(d) |-> d[i].v]

\* list(features.keys()): the feature each column of the row holds
Keys(d) == [i \in 1..Len(d) |-> d[i].k]

(***************************************************************************)
(* predict, one request                                                    *)
(***************************************************************************)
VARIABLES body, pc, body_content, urls_found, idx, url, depth,
          cleaned_urls, filtered_urls,
          posts, fpc, fi, fstep, features, output, cols

pvars == << body, pc, body_content, urls_found, idx, url, depth,
            cleaned_urls, filtered_urls >>

fvars == << posts, fpc, fi, fstep, features, output, cols >>

vars == << pvars, fvars >>

\* no request is being served
PIdle ==
  /\ body = << >>
  /\ pc = "idle"
  /\ body_content = << >>
  /\ urls_found = << >>
  /\ idx = 0
  /\ url = << >>
  /\ depth = 0
  /\ cleaned_urls = << >>
  /\ filtered_urls = << >>

\* transform is not running
FIdle ==
  /\ posts = << >>
  /\ fpc = "idle"
  /\ fi = 0
  /\ fstep = 0
  /\ features = << >>
  /\ output = << >>
  /\ cols = << >>

Init ==
  /\ body \in Bodies
  /\ pc = "preprocess"
  /\ body_content = << >>
  /\ urls_found = << >>
  /\ idx = 0
  /\ url = << >>
  /\ depth = 0
  /\ cleaned_urls = << >>
  /\ filtered_urls = << >>
  /\ FIdle

\* lines 69-77
Preprocess ==
  /\ pc = "preprocess"
  /\ body_content' = CutBody(body)
  /\ pc' = "extract"
  /\ UNCHANGED << body, urls_found, idx, url, depth, cleaned_urls,
                  filtered_urls >>
  /\ UNCHANGED fvars

\* lines 79-96
Extract ==
  /\ pc = "extract"
  /\ urls_found' = ExtractCandidates(body_content)
  /\ pc' = "loop"
  /\ UNCHANGED << body, body_content, idx, url, depth, cleaned_urls,
                  filtered_urls >>
  /\ UNCHANGED fvars

\* for url in urls_found, and the call of unwrap_url
NextCandidate ==
  /\ pc = "loop"
  /\ idx < Len(urls_found)
  /\ idx' = idx + 1
  /\ url' = urls_found[idx + 1]
  /\ depth' = 0
  /\ pc' = "unwrap"
  /\ UNCHANGED << body, body_content, urls_found, cleaned_urls,
                  filtered_urls >>
  /\ UNCHANGED fvars

\* an iteration of unwrap_url that rewrites url and continues
UnwrapContinue ==
  /\ pc = "unwrap"
  /\ InRange(depth)
  /\ UnwrapIter(url).hit
  /\ url' = UnwrapIter(url).url
  /\ depth' = depth + 1
  /\ UNCHANGED << body, pc, body_content, urls_found, idx, cleaned_urls,
                  filtered_urls >>
  /\ UNCHANGED fvars

\* break, an exception inside the try, or the end of the range
UnwrapReturn ==
  /\ pc = "unwrap"
  /\ ~(InRange(depth) /\ UnwrapIter(url).hit)
  /\ pc' = "cleanup"
  /\ UNCHANGED << body, body_content, urls_found, idx, url, depth,
                  cleaned_urls, filtered_urls >>
  /\ UNCHANGED fvars

\* lines 155-157
BasicCleanup ==
  /\ pc = "cleanup"
  /\ url' = Cleanup(url)
  /\ pc' = "filter"
  /\ UNCHANGED << body, body_content, urls_found, idx, depth, cleaned_urls,
                  filtered_urls >>
  /\ UNCHANGED fvars

\* lines 159-174, the url is ignored
FilterDrop ==
  /\ pc = "filter"
  /\ \/ DomainIgnored(url)
     \/ urlparse(url).ok /\ ExtIgnored(url)
  /\ pc' = "loop"
  /\ UNCHANGED << body, body_content, urls_found, idx, url, depth,
                  cleaned_urls, filtered_urls >>
  /\ UNCHANGED fvars

\* line 168: urlparse raises outside any try, the request fails
FilterRaise ==
  /\ pc = "filter"
  /\ ~DomainIgnored(url)
  /\ ~urlparse(url).ok
  /\ pc' = "raised"
  /\ UNCHANGED << body, body_content, urls_found, idx, url, depth,
                  cleaned_urls, filtered_urls >>
  /\ UNCHANGED fvars

\* lines 174-177
FilterKeep ==
  /\ pc = "filter"
  /\ ~DomainIgnored(url)
  /\ urlparse(url).ok
  /\ ~ExtIgnored(url)
  /\ cleaned_urls' = Append(cleaned_urls, clean_url_display(url))
  /\ pc' = "loop"
  /\ UNCHANGED << body, body_content, urls_found, idx, url, depth,
                  filtered_urls >>
  /\ UNCHANGED fvars

\* line 180
DedupSort ==
  /\ pc = "loop"
  /\ idx = Len(urls_found)
  /\ filtered_urls' = Dedup(cleaned_urls)
  /\ pc' = "done"
  /\ UNCHANGED << body, body_content, urls_found, idx, url, depth,
                  cleaned_urls >>
  /\ UNCHANGED fvars

Next ==
  \/ Preprocess
  \/ Extract
  \/ NextCandidate
  \/ UnwrapContinue
  \/ UnwrapReturn
  \/ BasicCleanup
  \/ FilterDrop
  \/ FilterRaise
  \/ FilterKeep
  \/ DedupSort

Spec == Init /\ [][Next]_vars

(***************************************************************************)
(* transform, one call                                                     *)
(***************************************************************************)
FInit ==
  /\ posts \in UNION { [1..n -> FTexts] : n \in 1..MaxPosts }
  /\ fpc = "next"
  /\ fi = 0
  /\ fstep = 0
  /\ features = << >>
  /\ output = << >>
  /\ cols = << >>
  /\ PIdle

\* for text in posts: features = {}
FStart ==
  /\ fpc = "next"
  /\ fi < Len(posts)
  /\ fi' = fi + 1
  /\ features' = << >>
  /\ fstep' = 1
  /\ fpc' = "try"
  /\ UNCHANGED << posts, output, cols >>
  /\ UNCHANGED pvars

\* the next statement of the try block completes
FTry ==
  /\ fpc = "try"
  /\ features' = TryStmt(features, posts[fi], fstep)
  /\ IF fstep < Len(TryStmts)
       THEN fstep' = fstep + 1 /\ fpc' = "try"
       ELSE fstep' = fstep /\ fpc' = "append"
  /\ UNCHANGED << posts, fi, output, cols >>
  /\ UNCHANGED pvars

\* the next statement of the try block raises: the except block runs
FExcept ==
  /\ fpc = "try"
  /\ features' = Fallback(features, posts[fi])
  /\ fpc' = "append"
  /\ UNCHANGED << posts, fi, fstep, output, cols >>
  /\ UNCHANGED pvars

\* output.append(list(features.values()))
FAppend ==
  /\ fpc = "append"
  /\ output' = Append(output, Values(features))
  /\ cols' = Append(cols, Keys(features))
  /\ fpc' = "next"
  /\ UNCHANGED << posts, fi, fstep, features >>
  /\ UNCHANGED pvars

\* return np.array(output)
FReturn ==
  /\ fpc = "next"
  /\ fi = Len(posts)
  /\ fpc' = "returned"
  /\ UNCHANGED << posts, fi, fstep, features, output, cols >>
  /\ UNCHANGED pvars

FNext ==
  \/ FStart
  \/ FTry
  \/ FExcept
  \/ FAppend
  \/ FReturn

SpecFeatures == FInit /\ [][FNext]_vars

(***************************************************************************)
(* Properties                                                              *)
(***************************************************************************)
Last(q) == q[Len(q)]

QueryOf(u) == parse_qs(urlparse(u).query)

\* u parses, with a scheme and a host
HasSchemeAndHost(u) ==
  /\ urlparse(u).ok
  /\ urlparse(u).scheme # << >>
  /\ urlparse(u).netloc # << >>

\* C1: every string of the final URL list has a non-empty scheme and a
\* non-empty host; a candidate without them ("#", "/relative/path",
\* "mailto:a@b.c") never appears in the output.
C1_OutputsHaveSchemeAndHost ==
  pc = "done" => \A u \in Range(filtered_urls) : HasSchemeAndHost(u)

\* C2: a failure in the processing of one candidate does not leave the
\* per-candidate loop: the request is never aborted by an exception.
C2_NoCandidateAbortsRequest == pc # "raised"

\* the rule (marker, param) rewrites u
Applies(u, marker, param) ==
  In(marker, u) /\ urlparse(u).ok /\ HasKey(QueryOf(u), param)

FirstValue(u, param) == Get(QueryOf(u), param)[1]

\* C3 as stated: in an iteration only the first rule whose marker occurs in
\* current is consulted; when its parameter is absent the Unwrapper halts
\* with current unchanged, whatever later rules would do.
C3_OnlyFirstMarkerRuleConsulted ==
  [][ ( /\ pc = "unwrap"
        /\ In(SAFELINKS, url)
        /\ urlparse(url).ok
        /\ ~HasKey(QueryOf(url), << "url" >>) )
      => url' = url ]_vars

\* C3 amended: in an iteration the rules are tried in table order and the
\* first rule whose marker occurs in current and whose parameter is present
\* rewrites current to the parameter's first value; a rule whose marker
\* occurs but whose parameter is absent is passed over.  The Unwrapper halts
\* with current unchanged when no rule has both, or when current holds a
\* marker and does not parse.
C3_FirstRuleWithMarkerAndParam ==
  [][ (pc = "unwrap" /\ depth < max_depth)
      => IF (In(SAFELINKS, url) \/ In(INFLECTION, url)) /\ ~urlparse(url).ok
           THEN url' = url /\ pc' = "cleanup"
         ELSE IF Applies(url, SAFELINKS, << "url" >>)
           THEN url' = FirstValue(url, << "url" >>) /\ pc' = "unwrap"
         ELSE IF Applies(url, INFLECTION, << "redirect" >>)
           THEN url' = FirstValue(url, << "redirect" >>) /\ pc' = "unwrap"
         ELSE url' = url /\ pc' = "cleanup" ]_vars

\* a candidate with both markers, no "url" and a "redirect" has been
\* rewritten to the redirect value
C3_Witness ==
  /\ pc = "unwrap"
  /\ depth = 1
  /\ In(SAFELINKS, urls_found[idx])
  /\ In(INFLECTION, urls_found[idx])
  /\ ~HasKey(QueryOf(urls_found[idx]), << "url" >>)
  /\ url = FirstValue(urls_found[idx], << "redirect" >>)

\* C4: unwrap_url makes at most max_depth rewriting transitions; at the
\* bound it returns the last computed current, without an error.
C4_BoundedUnwrap ==
  /\ [](depth <= max_depth)
  /\ [][ (pc = "unwrap" /\ depth = max_depth)
         => (pc' = "cleanup" /\ url' = url) ]_vars

\* unwrap_url returned at the bound, and what it returned is still a wrapper
C4_Witness ==
  /\ pc = "cleanup"
  /\ depth = max_depth
  /\ Applies(url, SAFELINKS, << "url" >>)

\* the filter's two tests, made on the string u
Rejected(u) ==
  \/ \E d \in ignored_domains : In(d, u)
  \/ \E ext \in ignored_exts : EndsWith(Lower(urlparse(u).path), ext)

\* C5 as stated: the filter's tests are made on the canonicalized URL, so a
\* URL whose canonical form passes them is kept.
C5_FilterSeesCanonicalUrl ==
  [][ ( /\ pc = "filter"
        /\ urlparse(url).ok
        /\ ~Rejected(clean_url_display(url)) )
      => cleaned_urls' = Append(cleaned_urls, clean_url_display(url)) ]_vars

\* C5 amended: the stages run in the order Unwrapper, trim, Filter,
\* Canonicalizer: the filter's tests are made on the unwrapped and trimmed
\* URL, tracking parameters still in it, and only a URL that passes them is
\* canonicalized.  A URL whose only occurrence of an ignored domain is in a
\* tracking-parameter value is dropped.
C5_FilterBeforeCanonicalizer ==
  [][ pc = "filter"
      => /\ (\E d \in ignored_domains : In(d, url))
              => cleaned_urls' = cleaned_urls
         /\ cleaned_urls' # cleaned_urls
              => /\ ~Rejected(url)
                 /\ cleaned_urls' = Append(cleaned_urls, clean_url_display(url)) ]_vars

\* the only candidate has an ignored domain in a tracking parameter only,
\* and the final list is empty
C5_Witness ==
  /\ pc = "done"
  /\ Len(urls_found) = 1
  /\ In(<< "w3.org" >>, urls_found[1])
  /\ ~Rejected(clean_url_display(urls_found[1]))
  /\ filtered_urls = << >>

\* C6: the final list is strictly ascending (so without duplicates) and
\* holds exactly the canonical strings that survived: candidates with equal
\* canonical strings contribute one entry.
C6_StrictlyAscending ==
  pc = "done"
    => /\ \A i \in 1..(Len(filtered_urls) - 1) :
             StrLess(filtered_urls[i], filtered_urls[i + 1])
       /\ Range(filtered_urls) = Range(cleaned_urls)

\* two different candidates with one canonical string gave one entry
C6_Witness ==
  /\ pc = "done"
  /\ Len(cleaned_urls) = 2
  /\ urls_found[1] # urls_found[2]
  /\ cleaned_urls[1] = cleaned_urls[2]
  /\ Len(filtered_urls) = 1

\* C7: no string of the final list has a path ending in an ignored
\* extension or contains an ignored domain.
C7_OutputPassesFilter ==
  pc = "done" => \A u \in Range(filtered_urls) : ~Rejected(u)

IsHtml(e) == e.t \in {"<html", "<HTML"}

IsDoctype(e) == e.t = "<!doctype html"

IsMarker(e) == IsHtml(e) \/ IsDoctype(e)

\* the positions of b that hold "<html", "<!doctype html", either
HtmlAt(b) == { i \in 1..Len(b) : IsHtml(b[i]) }

DoctypeAt(b) == { i \in 1..Len(b) : IsDoctype(b[i]) }

MarkerAt(b) == { i \in 1..Len(b) : IsMarker(b[i]) }

Min(S) == CHOOSE i \in S : \A j \in S : i <= j

\* C8 as stated: the body is cut at the earliest position of either marker.
C8_CutAtEarliestMarker ==
  pc \notin {"idle", "preprocess"}
    => body_content = IF MarkerAt(body) # {}
                        THEN From(body, Min(MarkerAt(body))) ELSE body

\* C8 amended: the body is cut at the first "<html" when the body has one,
\* also when "<!doctype html" occurs before it; at the first
\* "<!doctype html" when the body has no "<html"; and not at all when it has
\* neither.
C8_CutAtHtmlElseDoctype ==
  pc \notin {"idle", "preprocess"}
    => body_content = IF HtmlAt(body) # {}
                        THEN From(body, Min(HtmlAt(body)))
                      ELSE IF DoctypeAt(body) # {}
                        THEN From(body, Min(DoctypeAt(body)))
                      ELSE body

\* a body with the doctype before "<html" has been cut at "<html"
C8_Witness ==
  /\ pc = "extract"
  /\ HtmlAt(body) # {}
  /\ DoctypeAt(body) # {}
  /\ Min(DoctypeAt(body)) < Min(HtmlAt(body))
  /\ body_content = From(body, Min(HtmlAt(body)))

\* the decoded (name, value) pairs of a query string as written, pairs with
\* an empty value included
RECURSIVE RawPairsOf(_)
RawPairsOf(parts) ==
  IF parts = << >> THEN << >>
  ELSE LET nv == Head(parts)
           i  == Find(nv, "=")
       IN  (IF nv = << >> THEN << >>
            ELSE IF i = 0 THEN << [k |-> Unquote(nv), v |-> << >>] >>
            ELSE << [k |-> Unquote(SubSeq(nv, 1, i - 1)),
                     v |-> Unquote(From(nv, i + 1))] >>)
           \o RawPairsOf(Tail(parts))

RawPairs(u) == RawPairsOf(Split(urlparse(u).query, "&"))

\* C9: clean_url_display removes exactly the pairs whose key is a tracking
\* parameter and keeps the other pairs in their order.
C9_OtherPairsKeptInOrder ==
  [][ (pc = "filter" /\ cleaned_urls' # cleaned_urls)
      => RawPairs(Last(cleaned_urls'))
           = SelectSeq(RawPairs(url), LAMBDA p : p.k \notin tracking_params) ]_vars

ColumnOrder ==
  << "num_script", "num_iframe", "num_forms", "num_hidden", "num_links" >>

\* C10: every row transform emits has 5 values in the column order
\* num_script, num_iframe, num_forms, num_hidden, num_links, on the normal
\* path and on the fallback path alike.
C10_FixedColumnOrder ==
  \A i \in 1..Len(output) : Len(output[i]) = 5 /\ cols[i] = ColumnOrder

=============================================================================
